---- MODULE Spec2Model ----
(***************************************************************************)
(* Constraint analysis of circomspect                                      *)
(* (program_analysis/src/constraint_analysis.rs).                          *)
(*                                                                         *)
(* run_constraint_analysis walks the statements of a CFG in block order    *)
(* and statement order and fills the three maps of a ConstraintAnalysis;   *)
(* multi_step_constraint is the closure loop over constraint_map.          *)
(***************************************************************************)
EXTENDS Integers, Sequences, FiniteSets, TLC

\* ------------------------------------------------------------------ bounds
\* Variable names of a component.
MaxNames == 3
\* Statements of a CFG of any statements.
MaxStmts == 2
\* Statements of a CFG of constraint equalities.
MaxEqualities == 3
\* Statements of a CFG of statements of the test sources (each source has
\* three declarations and two constraint statements).
MaxTestStmts == 5
\* Variable occurrences of an expression.
MaxOperands == 2

\* The three signals of tests::test_single_step_constraint.
sig_in == 1
sig_out == 2
sig_tmp == 3

VariableNames == 1..MaxNames

\* ------------------------------------------------------------ IR interface
\* A VariableUse is one occurrence of a variable: the location (meta), the
\* name and the access path.
VariableUse(meta, name, access) ==
    [meta |-> meta, name |-> name, access |-> access]

\* The variable occurrences of an expression, as a sequence of names in
\* nondecreasing order (`2 * in` is <<in>>, `in * in` is <<in, in>>).
Expressions ==
    { e \in UNION { [1..k -> VariableNames] : k \in 0..MaxOperands } :
        \A i \in 1..(Len(e) - 1) : e[i] <= e[i + 1] }

\* The uses of expression e in the statement at location i; the occurrence
\* at position k has location <<i, base + k>>.
ExpressionUses(i, base, e) ==
    { VariableUse(<<i, base + k>>, e[k], <<>>) : k \in 1..Len(e) }

AssignOps == {"AssignVar", "AssignSignal", "AssignConstraintSignal"}

\* `signal n1, n2;`
Declaration(i, names) ==
    [type |-> "Declaration", op |-> "None", meta |-> <<i, 0>>, names |-> names,
     written |-> {}, read |-> {}]

\* `var = rhe`, `var <-- rhe`, `var <== rhe`
Substitution(i, var, op, rhe) ==
    [type |-> "Substitution", op |-> op, meta |-> <<i, 0>>, names |-> {},
     written |-> {VariableUse(<<i, 0>>, var, <<>>)},
     read |-> ExpressionUses(i, 0, rhe)]

\* `lhe === rhe`, with lhe a single variable as in the test's `tmp === 2 * in`
ConstraintEquality(i, lhe, rhe) ==
    [type |-> "ConstraintEquality", op |-> "None", meta |-> <<i, 0>>, names |-> {},
     written |-> {},
     read |-> ExpressionUses(i, 0, <<lhe>>) \cup ExpressionUses(i, 1, rhe)]

\* `assert(arg)`: a statement of another kind, which reads and writes nothing
\* else.
AssertStmt(i, arg) ==
    [type |-> "Assert", op |-> "None", meta |-> <<i, 0>>, names |-> {},
     written |-> {}, read |-> ExpressionUses(i, 0, arg)]

DeclaredNames == { ns \in SUBSET VariableNames : ns # {} }

\* The statements that may stand at location i of a CFG.
Statements(i) ==
    { Declaration(i, ns) : ns \in DeclaredNames }
    \cup { Substitution(i, v, op, e) :
             v \in VariableNames, op \in AssignOps, e \in Expressions }
    \cup { ConstraintEquality(i, v, e) : v \in VariableNames, e \in Expressions }
    \cup { AssertStmt(i, e) : e \in Expressions }

variables_written(stmt) == stmt.written
variables_read(stmt) == stmt.read
\* VariableMeta::variables_used: the variables read and the variables written.
variables_used(stmt) == variables_read(stmt) \cup variables_written(stmt)

NamesOf(uses) == { u.name : u \in uses }

\* ------------------------------------------------------------------- state
VARIABLES
    constraint_map,   \* VariableName -> set of VariableName (a HashMap)
    declarations,     \* VariableName -> VariableUse
    definitions,      \* VariableName -> VariableUse
    visited,          \* number of statements of the CFG visited so far
    stmt_kind,        \* history: type and op of the statement visited last,
                      \* and whether two of its uses share a name
    writes,           \* history: the uses written by the visited statements
    declared,         \* history: the names the visited Declarations declare
    constraints,      \* history: the visited constraint statements, each as
                      \* its type and the names of its variables_used()
    pc,               \* "build", "ready", "loop" or "done"
    source,           \* argument of the running multi_step_constraint call
    result,           \* its local `result`
    update,           \* its local `update`
    rounds            \* history: executions of the loop body in this call

vars == <<constraint_map, declarations, definitions, visited, stmt_kind,
          writes, declared, constraints, pc, source, result, update, rounds>>

EmptyMap == [k \in {} |-> {}]

\* ------------------------------------------------------ ConstraintAnalysis
\* Mutant: the first definition of a name is kept (entry().or_insert()).
add_definition_keep_first(defs, var) ==
    [k \in DOMAIN defs \cup {var.name} |->
        IF k \in DOMAIN defs THEN defs[k] ELSE var]

add_definition(defs, var) ==
    [k \in DOMAIN defs \cup {var.name} |->
        IF k = var.name THEN var ELSE defs[k]]

get_definition(defs, var) ==
    IF var \in DOMAIN defs THEN <<defs[var]>> ELSE <<>>

add_declaration(decls, var) ==
    [k \in DOMAIN decls \cup {var.name} |->
        IF k = var.name THEN var ELSE decls[k]]

get_declaration(decls, var) ==
    IF var \in DOMAIN decls THEN <<decls[var]>> ELSE <<>>

\* Mutant: the sink replaces the set of the source (insert(source, {sink})).
add_constraint_step_replace(cm, src, sink) ==
    [k \in DOMAIN cm \cup {src} |-> IF k = src THEN {sink} ELSE cm[k]]

add_constraint_step(cm, src, sink) ==
    [k \in DOMAIN cm \cup {src} |->
        (IF k \in DOMAIN cm THEN cm[k] ELSE {})
        \cup (IF k = src THEN {sink} ELSE {})]

single_step_constraint(cm, src) ==
    IF src \in DOMAIN cm THEN cm[src] ELSE {}

constrained_variables(cm) == DOMAIN cm

\* ------------------------------------------------- run_constraint_analysis
\* for var in stmt.variables_written() { result.add_definition(var) }
\* (a statement writes at most one variable, so the order of the iteration
\* does not show)
RECURSIVE AddDefinitions(_, _)
AddDefinitions(defs, uses) ==
    IF uses = {} THEN defs
    ELSE LET var == CHOOSE u \in uses : TRUE
         IN  AddDefinitions(add_definition(defs, var), uses \ {var})

\* for sink in names { result.add_declaration(&VariableUse::new(meta, sink, &Vec::new())) }
RECURSIVE AddDeclarations(_, _, _)
AddDeclarations(decls, meta, names) ==
    IF names = {} THEN decls
    ELSE LET sink == CHOOSE n \in names : TRUE
         IN  AddDeclarations(add_declaration(decls, VariableUse(meta, sink, <<>>)),
                             meta, names \ {sink})

\* Mutant: the uses are compared, not their names (source != sink).
RECURSIVE AddSinksCompareUses(_, _, _)
AddSinksCompareUses(cm, src, sinks) ==
    IF sinks = {} THEN cm
    ELSE LET sink == CHOOSE u \in sinks : TRUE
             next == IF src # sink
                     THEN add_constraint_step(cm, src.name, sink.name)
                     ELSE cm
         IN  AddSinksCompareUses(next, src, sinks \ {sink})

\* Mutant: the entry of the source is made before the names are compared.
RECURSIVE AddSinksEntryFirst(_, _, _)
AddSinksEntryFirst(cm, src, sinks) ==
    IF sinks = {} THEN cm
    ELSE LET sink == CHOOSE u \in sinks : TRUE
             entry == [k \in DOMAIN cm \cup {src.name} |->
                         IF k \in DOMAIN cm THEN cm[k] ELSE {}]
             next == IF src.name # sink.name
                     THEN add_constraint_step(entry, src.name, sink.name)
                     ELSE entry
         IN  AddSinksEntryFirst(next, src, sinks \ {sink})

\* The inner loop for one source: for sink in ... { if source.name() !=
\* sink.name() { result.add_constraint_step(source.name(), sink.name()) } }
RECURSIVE AddSinks(_, _, _)
AddSinks(cm, src, sinks) ==
    IF sinks = {} THEN cm
    ELSE LET sink == CHOOSE u \in sinks : TRUE
             next == IF src.name # sink.name
                     THEN add_constraint_step(cm, src.name, sink.name)
                     ELSE cm
         IN  AddSinks(next, src, sinks \ {sink})

\* The outer loop: for source in ... { for sink in sinks { ... } }
RECURSIVE AddSources(_, _, _)
AddSources(cm, sources, sinks) ==
    IF sources = {} THEN cm
    ELSE LET src == CHOOSE u \in sources : TRUE
         IN  AddSources(AddSinks(cm, src, sinks), sources \ {src}, sinks)

\* Mutant: steps lead from the variables read to the variables written only.
ConstraintStepsReadToWritten(cm, stmt) ==
    AddSources(cm, variables_read(stmt), variables_written(stmt))

\* Mutant: both loops run over stmt.variables_read().
ConstraintStepsReadOnly(cm, stmt) ==
    AddSources(cm, variables_read(stmt), variables_read(stmt))

\* The body of the constraint arm: both loops run over stmt.variables_used().
ConstraintSteps(cm, stmt) ==
    AddSources(cm, variables_used(stmt), variables_used(stmt))

\* Mutant: the arm takes a Substitution of any op.
is_constraint_statement_any_op(stmt) ==
    \/ stmt.type = "ConstraintEquality"
    \/ stmt.type = "Substitution"

\* The pattern of the constraint arm:
\* ConstraintEquality { .. } | Substitution { op: AssignConstraintSignal, .. }
is_constraint_statement(stmt) ==
    \/ stmt.type = "ConstraintEquality"
    \/ stmt.type = "Substitution" /\ stmt.op = "AssignConstraintSignal"

\* The match on the statement, as far as constraint_map goes: the
\* Declaration arm and the `_ => {}` arm leave it alone.
NextConstraintMap(cm, stmt) ==
    IF is_constraint_statement(stmt) THEN ConstraintSteps(cm, stmt) ELSE cm

\* What the history keeps of a constraint statement.
ConstraintRecord(stmt) ==
    [type |-> stmt.type, used |-> NamesOf(variables_used(stmt))]

\* What the history keeps of the statement visited last.
KindRecord(stmt) ==
    [type |-> stmt.type, op |-> stmt.op,
     repeated |-> Cardinality(stmt.read \cup stmt.written)
                    > Cardinality(NamesOf(stmt.read \cup stmt.written))]

Init ==
    /\ constraint_map = EmptyMap
    /\ declarations = EmptyMap
    /\ definitions = EmptyMap
    /\ visited = 0
    /\ stmt_kind = [type |-> "None", op |-> "None", repeated |-> FALSE]
    /\ writes = {}
    /\ declared = {}
    /\ constraints = {}
    /\ pc = "build"
    /\ source = 0
    /\ result = {}
    /\ update = {}
    /\ rounds = 0

\* One iteration of `for stmt in basic_block.iter()`. The outer loop over the
\* blocks only fixes the order: stmt is the next statement of the CFG in block
\* order, then statement order, and `visited + 1` is its location.
VisitStatement(stmt) ==
    /\ pc = "build"
    /\ definitions' = AddDefinitions(definitions, variables_written(stmt))
    /\ declarations' =
         IF stmt.type = "Declaration"
         THEN AddDeclarations(declarations, stmt.meta, stmt.names)
         ELSE declarations
    /\ constraint_map' = NextConstraintMap(constraint_map, stmt)
    /\ visited' = visited + 1
    /\ stmt_kind' = KindRecord(stmt)
    /\ writes' = writes \cup stmt.written
    /\ declared' = declared \cup stmt.names
    /\ constraints' =
         IF \/ stmt.type = "ConstraintEquality"
            \/ stmt.type = "Substitution" /\ stmt.op = "AssignConstraintSignal"
         THEN constraints \cup {ConstraintRecord(stmt)}
         ELSE constraints
    /\ UNCHANGED <<pc, source, result, update, rounds>>

\* The pass over a CFG of any statements.
Visit ==
    /\ visited < MaxStmts
    /\ \E stmt \in Statements(visited + 1) : VisitStatement(stmt)

Next == Visit

Spec == Init /\ [][Next]_vars

\* ------------------------------------------- tests::test_single_step_constraint
\* The statements of the two test sources: the three signal declarations,
\* `tmp <== 2 * in`, `tmp === 2 * in` and `out <== in * in`.
TestStatements(i) ==
    { Declaration(i, {sig_in}), Declaration(i, {sig_out}),
      Declaration(i, {sig_tmp}),
      Substitution(i, sig_tmp, "AssignConstraintSignal", <<sig_in>>),
      ConstraintEquality(i, sig_tmp, <<sig_in>>),
      Substitution(i, sig_out, "AssignConstraintSignal", <<sig_in, sig_in>>) }

\* The pass over a CFG of statements of the test sources.
VisitTest ==
    /\ visited < MaxTestStmts
    /\ \E stmt \in TestStatements(visited + 1) : VisitStatement(stmt)

TestNext == VisitTest

TestSpec == Init /\ [][TestNext]_vars

\* ---------------------------------------------------- multi_step_constraint
\* Mutant: the loop starts from the source itself.
InitialUpdateFromSource(cm, src) == {src}

\* let mut update = self.single_step_constraint(source);
InitialUpdate(cm, src) == single_step_constraint(cm, src)

\* Mutant: an `if`, not a `while`: the body runs once at most.
LoopConditionOnce(upd, res) == res = {} /\ upd # {}

\* Mutant: while !update.is_empty()
LoopConditionNonEmpty(upd, res) == upd # {}

\* while !update.is_subset(&result)
LoopCondition(upd, res) == ~(upd \subseteq res)

\* result.extend(update.iter().cloned());
Extend(res, upd) == res \cup upd

\* update.iter().flat_map(|source| self.single_step_constraint(source)).collect()
NextUpdate(cm, upd) == UNION { single_step_constraint(cm, s) : s \in upd }

\* self.multi_step_constraint(source).iter().any(|sink| sinks.contains(sink)),
\* on the set multi_step_constraint returned
constrains_any(multi, sinks) == \E sink \in multi : sink \in sinks

RoundCap == MaxNames + 2

\* The pass over a CFG of constraint equalities: these build every
\* constraint_map a CFG can build.
VisitEquality ==
    /\ visited < MaxEqualities
    /\ \E v \in VariableNames, e \in Expressions :
          VisitStatement(ConstraintEquality(visited + 1, v, e))

\* run_constraint_analysis returns `result`; the maps are read-only from here.
ReturnAnalysis ==
    /\ pc = "build"
    /\ pc' = "ready"
    /\ UNCHANGED <<constraint_map, declarations, definitions, visited,
                   stmt_kind, writes, declared, constraints, source, result, update, rounds>>

\* A call multi_step_constraint(src), up to the loop.
MultiStepCall ==
    /\ pc \in {"ready", "done"}
    /\ \E src \in VariableNames :
         /\ source' = src
         /\ update' = InitialUpdate(constraint_map, src)
    /\ result' = {}
    /\ rounds' = 0
    /\ pc' = "loop"
    /\ UNCHANGED <<constraint_map, declarations, definitions, visited,
                   stmt_kind, writes, declared, constraints>>

\* One execution of the loop body.
LoopBody ==
    /\ pc = "loop"
    /\ LoopCondition(update, result)
    /\ result' = Extend(result, update)
    /\ update' = NextUpdate(constraint_map, update)
    /\ rounds' = IF rounds < RoundCap THEN rounds + 1 ELSE rounds
    /\ UNCHANGED <<constraint_map, declarations, definitions, visited,
                   stmt_kind, writes, declared, constraints, pc, source>>

\* The loop condition fails: `result` is returned.
LoopExit ==
    /\ pc = "loop"
    /\ ~LoopCondition(update, result)
    /\ pc' = "done"
    /\ UNCHANGED <<constraint_map, declarations, definitions, visited,
                   stmt_kind, writes, declared, constraints, source, result, update, rounds>>

QueryNext ==
    \/ VisitEquality
    \/ ReturnAnalysis
    \/ MultiStepCall
    \/ LoopBody
    \/ LoopExit

QuerySpec == Init /\ [][QueryNext]_vars

\* The loop is straight-line code of one thread: it keeps running.
FairQuerySpec ==
    QuerySpec /\ WF_vars(LoopBody) /\ WF_vars(LoopExit)

\* ------------------------------------------------------------------ claims
\* The variable set of a visited constraint statement: the names the two
\* loops of the constraint arm run over.
NamesIn(c) == c.used

\* Every variable of the map: its keys and the members of its sets.
MapVariables(cm) == DOMAIN cm \cup UNION { cm[k] : k \in DOMAIN cm }

\* S holds the single-step set of src and is closed under single steps.
Closed(cm, src, S) ==
    /\ single_step_constraint(cm, src) \subseteq S
    /\ \A X \in S : single_step_constraint(cm, X) \subseteq S

SmallestClosed(cm, src) ==
    CHOOSE S \in SUBSET VariableNames :
        /\ Closed(cm, src, S)
        /\ \A T \in SUBSET VariableNames : Closed(cm, src, T) => S \subseteq T

\* C1: the set multi_step_constraint(source) returns is the smallest set that
\* holds single_step_constraint(source) and is closed under single steps.
C1_TransitiveClosure ==
    pc = "done" => result = SmallestClosed(constraint_map, source)

\* A call has returned a variable that is two steps away from the source.
C1_Witness ==
    /\ pc = "done"
    /\ rounds >= 2
    /\ result \ ({source} \cup single_step_constraint(constraint_map, source)) # {}

\* C2, as stated: the set multi_step_constraint(source) returns never holds
\* the source, and constrains_any(source, {source}) is false.
C2_SourceExcluded ==
    pc = "done" =>
        /\ source \notin result
        /\ ~constrains_any(result, {source})

\* C2, amended: the returned set holds the source exactly when the source
\* has a single-step neighbour, and constrains_any(source, {source}) is true
\* exactly then.
C2_SourceIffConstrained ==
    pc = "done" =>
        /\ source \in result
             <=> single_step_constraint(constraint_map, source) # {}
        /\ constrains_any(result, {source})
             <=> single_step_constraint(constraint_map, source) # {}

\* A call on a constrained source has returned, with the source in the set.
C2_Witness ==
    /\ pc = "done"
    /\ single_step_constraint(constraint_map, source) # {}
    /\ source \in result

\* C3: after any prefix of the statements, B in single_step_constraint(A)
\* implies A in single_step_constraint(B).
C3_Symmetry ==
    \A A \in VariableNames, B \in VariableNames :
        B \in single_step_constraint(constraint_map, A)
            => A \in single_step_constraint(constraint_map, B)

\* A constraint assignment over three names has been visited.
C3_Witness ==
    /\ \E c \in constraints :
          c.type = "Substitution" /\ Cardinality(NamesIn(c)) = 3
    /\ \E A \in VariableNames :
          Cardinality(single_step_constraint(constraint_map, A)) = 2

\* C4: no variable is in its own single-step set, also after a constraint
\* statement that uses one name more than once.
C4_NonReflexive ==
    \A A \in VariableNames : A \notin single_step_constraint(constraint_map, A)

\* The one statement visited is a constraint statement with two uses of one
\* name, and it has added edges.
C4_Witness ==
    /\ visited = 1
    /\ stmt_kind.repeated
    /\ constraint_map # EmptyMap

\* C5: within a call the result set never shrinks, every execution of the
\* loop body adds a variable to it, the loop body runs at most as often as
\* the map has variables, and the loop ends.
C5_Termination ==
    /\ [][pc = "loop" => result \subseteq result']_vars
    /\ [][(pc = "loop" /\ pc' = "loop") => result' # result]_vars
    /\ [](rounds <= Cardinality(MapVariables(constraint_map)))
    /\ (pc = "loop") ~> (pc = "done")

\* A call on the cycle A-B-C-A has returned after two rounds.
C5_Witness ==
    /\ pc = "done"
    /\ rounds = 2
    /\ Cardinality(DOMAIN constraint_map) = 3
    /\ \A k \in DOMAIN constraint_map : Cardinality(constraint_map[k]) = 2

\* C6: every variable of a visited constraint statement has all the other
\* names of that statement in its single-step set, whatever was visited
\* since.
C6_Clique ==
    \A c \in constraints : \A X \in NamesIn(c) :
        (NamesIn(c) \ {X}) \subseteq single_step_constraint(constraint_map, X)

\* A constraint statement over three names and another constraint statement
\* have been visited.
C6_Witness ==
    /\ Cardinality(constraints) = 2
    /\ \E c \in constraints : Cardinality(NamesIn(c)) = 3

\* sinks = [2, 1, 1] for sources [in, out, tmp]
TestSizes ==
    /\ Cardinality(single_step_constraint(constraint_map, sig_in)) = 2
    /\ Cardinality(single_step_constraint(constraint_map, sig_out)) = 1
    /\ Cardinality(single_step_constraint(constraint_map, sig_tmp)) = 1

\* The three declarations of the test sources have been visited, in order.
TestDeclarations ==
    /\ DOMAIN declarations = {sig_in, sig_out, sig_tmp}
    /\ declarations[sig_in].meta = <<1, 0>>
    /\ declarations[sig_out].meta = <<2, 0>>
    /\ declarations[sig_tmp].meta = <<3, 0>>

\* The first test source has been visited: the declarations, then
\* `tmp <== 2 * in`, then `out <== in * in`.
TestSourceAssign ==
    /\ visited = 5
    /\ TestDeclarations
    /\ writes = { VariableUse(<<4, 0>>, sig_tmp, <<>>),
                  VariableUse(<<5, 0>>, sig_out, <<>>) }

\* The second test source has been visited: the declarations, then
\* `tmp === 2 * in`, then `out <== in * in`.
TestSourceEquality ==
    /\ visited = 5
    /\ TestDeclarations
    /\ writes = { VariableUse(<<5, 0>>, sig_out, <<>>) }
    /\ constraints =
         { [type |-> "ConstraintEquality", used |-> {sig_tmp, sig_in}],
           [type |-> "Substitution", used |-> {sig_out, sig_in}] }

\* C7: at any point of the pass, `x <== e` and `x === e` add the same edges;
\* and the pass over either test source ends with the sizes 2, 1, 1 for in,
\* out, tmp.
C7_SameEdges ==
    /\ \A x \in VariableNames, e \in Expressions :
          NextConstraintMap(constraint_map,
              Substitution(visited + 1, x, "AssignConstraintSignal", e))
          = NextConstraintMap(constraint_map,
              ConstraintEquality(visited + 1, x, e))
    /\ (TestSourceAssign \/ TestSourceEquality) => TestSizes

\* The second test source has been visited.
C7_Witness ==
    /\ TestSourceEquality
    /\ TestSizes

\* The uses of name n written so far.
WritesOf(n) == { u \in writes : u.name = n }

\* C8: a name has a definition exactly if a visited statement writes it,
\* declared or not; the definition is then the use written last; a name
\* declared and never written has a declaration and no definition.
C8_LastWriterWins ==
    \A n \in VariableNames :
        /\ get_definition(definitions, n) # <<>> <=> WritesOf(n) # {}
        /\ WritesOf(n) # {} =>
             /\ definitions[n] \in WritesOf(n)
             /\ \A u \in WritesOf(n) : u.meta[1] <= definitions[n].meta[1]
        /\ (n \in declared /\ WritesOf(n) = {}) =>
             /\ get_declaration(declarations, n) # <<>>
             /\ get_definition(definitions, n) = <<>>

\* An undeclared name has been written twice.
C8_Witness ==
    \E n \in VariableNames :
        /\ Cardinality(WritesOf(n)) = 2
        /\ n \notin declared

\* C9: the keys of constraint_map are the names with a non-empty single-step
\* set, which are the names that a visited constraint statement holds
\* together with another name.
C9_ConstrainedVariables ==
    /\ constrained_variables(constraint_map)
         = { v \in VariableNames :
               single_step_constraint(constraint_map, v) # {} }
    /\ \A v \in VariableNames :
         v \in constrained_variables(constraint_map)
           <=> \E c \in constraints : v \in NamesIn(c) /\ NamesIn(c) # {v}

\* A constraint over one name alone, used twice (`in === in`), has been
\* visited, and that name is not returned.
C9_Witness ==
    \E v \in VariableNames :
        /\ constraints = {[type |-> "ConstraintEquality", used |-> {v}]}
        /\ visited = 1
        /\ stmt_kind.repeated
        /\ v \notin constrained_variables(constraint_map)

\* The type and op of a constraint statement.
ConstraintKind(k) ==
    \/ k.type = "ConstraintEquality"
    \/ k.type = "Substitution" /\ k.op = "AssignConstraintSignal"

\* C10: visiting a statement that is no constraint statement leaves
\* constraint_map as it is, and every edge A-B has a visited constraint
\* statement with both A and B among its variables.
C10_OnlyConstraintStatements ==
    /\ [][(visited' = visited + 1 /\ ~ConstraintKind(stmt_kind'))
            => constraint_map' = constraint_map]_vars
    /\ [](\A A \in VariableNames :
            \A B \in single_step_constraint(constraint_map, A) :
              \E c \in constraints : {A, B} \subseteq NamesIn(c))

\* `x <-- e` has been visited after a constraint statement added edges.
C10_Witness ==
    /\ stmt_kind.type = "Substitution"
    /\ stmt_kind.op = "AssignSignal"
    /\ Cardinality(writes) = 1
    /\ \E u \in writes :
          \E B \in VariableNames \ {u.name} :
             B \notin single_step_constraint(constraint_map, u.name)
    /\ constraint_map # EmptyMap

====
